---------------------------- MODULE Spec2Model ----------------------------
(***************************************************************************)
(* TriangleStripArtworkRenderer (src/src/artwork-renderer.ts): the lazy    *)
(* invalidation controller, the rail parameterizer, the rectification pass *)
(* and the compositing pass, together with the part of the WebGL context   *)
(* the renderer drives and the two host-owned sources it subscribes to.    *)
(*                                                                         *)
(* Every public operation of the renderer is one action; a render() call   *)
(* is atomic because the host is single threaded and the callbacks only    *)
(* run between calls.  The GL calls of the last operation are kept, in     *)
(* order, in gl.calls.                                                     *)
(***************************************************************************)
EXTENDS Integers, Sequences, FiniteSets, TLC

\* ------------------------------------------------------------------ bounds
\* Longest ribbon the editing collaborator builds.
MaxPoints == 3

\* Fixed-point scale used to order sums of square roots (three decimals).
Scale == 1000

\* --------------------------------------------------------- host-side data
\* Boundary points the editing collaborator can place: projector position,
\* depth, and photo position on the corners of the [-1,1] photo square.
PointA == [position |-> <<-1, -1>>, depth |-> 0, photoPos |-> <<-1, -1>>]
PointB == [position |-> <<1, 1>>, depth |-> 1, photoPos |-> <<1, 1>>]
PointPool == {PointA, PointB}

\* Points the editing collaborator places at JavaScript index i: the first
\* cross-rail edge runs from PointA to PointB, later points are free.
Candidates(i) == IF i = 0 THEN {PointA} ELSE IF i = 1 THEN {PointB} ELSE PointPool

\* Photo sources the host can publish: a texture handle and pixel dimensions.
PhotoSources ==
  { [texture |-> 1, dimensions |-> <<3, 4>>],
    [texture |-> 2, dimensions |-> <<2, 2>>] }

\* Output resolutions the host sets, render targets it passes, frame times.
Resolutions == { <<8, 6>> }
CanvasSize == <<8, 6>>
Targets == { "target" }
Times == { 0, 1 }

\* Seconds since the start at which the host's frame callback runs.
HostSeconds == { 10 }

\* The null reference of the photo fields.
NoTexture == 0
NoDimensions == << >>

\* All ribbons of at most n points.
RECURSIVE Ribbons(_)
Ribbons(n) ==
  IF n = 0 THEN { << >> }
  ELSE LET shorter == Ribbons(n - 1)
       IN shorter \cup { Append(s, p) : s \in { t \in shorter : Len(t) = n - 1 },
                                         p \in Candidates(n - 1) }

\* -------------------------------------------------------------- arithmetic
\* Least k in lo..hi with k * k >= n.
RECURSIVE SqrtSearch(_, _, _)
SqrtSearch(n, lo, hi) ==
  IF lo >= hi THEN lo
  ELSE LET mid == (lo + hi) \div 2
       IN IF mid * mid >= n THEN SqrtSearch(n, lo, mid)
          ELSE SqrtSearch(n, mid + 1, hi)

\* Math.ceil(Math.sqrt(n)) for a natural n.
CeilSqrt(n) == SqrtSearch(n, 0, IF n < 46340 THEN n ELSE 46340)

\* Math.floor(Math.sqrt(n)) for a natural n.
FloorSqrt(n) == LET c == CeilSqrt(n) IN IF c * c = n THEN c ELSE c - 1

IsSquare(n) == CeilSqrt(n) * CeilSqrt(n) = n

\* A length is a sum of square roots of naturals, kept as the sequence of
\* its non-zero radicands in the order the code adds them; << >> is 0.
Zero == << >>

\* d + Math.sqrt(r)
AddRoot(d, r) == IF r = 0 THEN d ELSE Append(d, r)

\* Lower and upper bound of Scale * sqrt(r); equal when r is a square.
RootLo(r) == IF IsSquare(r) THEN Scale * CeilSqrt(r) ELSE FloorSqrt(r * Scale * Scale)
RootHi(r) == IF IsSquare(r) THEN Scale * CeilSqrt(r) ELSE CeilSqrt(r * Scale * Scale)

RECURSIVE SumLo(_)
SumLo(d) == IF d = << >> THEN 0 ELSE RootLo(Head(d)) + SumLo(Tail(d))

RECURSIVE SumHi(_)
SumHi(d) == IF d = << >> THEN 0 ELSE RootHi(Head(d)) + SumHi(Tail(d))

\* a < b for two lengths.
Less(a, b) ==
  IF Len(a) <= 1 /\ Len(b) <= 1
  THEN (IF a = << >> THEN 0 ELSE a[1]) < (IF b = << >> THEN 0 ELSE b[1])
  ELSE SumHi(a) < SumLo(b)

\* Math.max(a, b)
Max_First(a, b) == a

Max(a, b) == IF Less(a, b) THEN b ELSE a

\* A rounding that truncates.
Ceil_Truncate(d) == SumLo(d) \div Scale

\* Math.ceil(d)
Ceil(d) ==
  IF Len(d) = 0 THEN 0
  ELSE IF Len(d) = 1 THEN CeilSqrt(d[1])
  ELSE IF SumLo(d) = SumHi(d) THEN (SumLo(d) + Scale - 1) \div Scale
  ELSE (SumLo(d) \div Scale) + 1

\* d / m, kept as the fraction; a zero denominator is NaN or Infinity.
Divide(d, m) == [num |-> d, den |-> m]
IsNaN(q) == q.den = << >> /\ q.num = << >>
IsInfinite(q) == q.den = << >> /\ q.num # << >>

\* A conversion that stops at the 0..1 photo coordinate.
ToPixel_NoDimensions(p, dim) == (p + 1) \div 2

\* (photoPos * 0.5 + 0.5) * dimensions, one component; photoPos is -1 or 1.
ToPixel(p, dim) == ((p + 1) * dim) \div 2

\* pixel position of a boundary point
PixelPos(point, dimensions) ==
  << ToPixel(point.photoPos[1], dimensions[1]),
     ToPixel(point.photoPos[2], dimensions[2]) >>

\* vec2.distance(a, b)
distance(a, b) ==
  AddRoot(Zero, (a[1] - b[1]) * (a[1] - b[1]) + (a[2] - b[2]) * (a[2] - b[2]))

\* a + b for two lengths
Plus(a, b) == a \o b

\* element i of a JavaScript array (indices from 0)
At(arr, i) == arr[i + 1]

\* ------------------------------------------------------- the flow shader
\* Texture coordinates and the shader's time are multiples of 1 / Unit, held
\* as the integer count of those steps.
Unit == 4
MaxShaderTime == 12
MaxPeriods == 2

\* An older revision of the shader wrapped with fract().
GlslMod_Fract(x, y) == x % Unit

\* GLSL mod(x, y) = x - y * floor(x / y), for y > 0
GlslMod(x, y) == x % y

\* vec2(v_uv.x, mod(v_uv.y + time, 2.0))
scrollUv(v_uv, time) == << v_uv[1], GlslMod(v_uv[2] + time, 2 * Unit) >>

\* One coordinate under MIRRORED_REPEAT wrapping: the place inside the
\* texture, 0..Unit, that the coordinate s samples.
MirroredRepeat(s) ==
  LET m == s % (2 * Unit) IN IF m <= Unit THEN m ELSE 2 * Unit - m

\* texture(photoTexture, coord) on the generated texture: the place sampled.
SampleTexture(coord) == << MirroredRepeat(coord[1]), MirroredRepeat(coord[2]) >>

\* main() of the compositing fragment shader
FragmentMain(v_uv, time) == SampleTexture(scrollUv(v_uv, time))

\* No fragment shaded yet.
NoFragment ==
  [shaded |-> FALSE, v_uv |-> <<0, 0>>, time |-> 0,
   scrollUv |-> <<0, 0>>, fragColor |-> <<0, 0>>]


\* ------------------------------------------------------------------ state
VARIABLES
  area,             \* the ribbon's boundary points (host owned)
  areaSubscribed,   \* the ribbon's observer list holds the renderer's callback
  photoSubscribed,  \* the photo source's observer list holds the callback
  this,             \* the renderer's fields
  gl,               \* the WebGL objects and bindings the renderer touches
  op,               \* the operation that ran last
  regenerations,    \* updateGeometry runs during the last operation
  destroyed,        \* destroy() has been called
  fragment          \* the last fragment the compositing shader shaded

vars == << area, areaSubscribed, photoSubscribed, this, gl, op,
           regenerations, destroyed, fragment >>

\* The seven GPU objects of the constructor, and the two shader programs.
VertexLayouts == { "vao", "textureMappingVAO" }
DataBuffers == { "positionBuffer", "uvBuffer", "textureMappingPositionBuffer",
                 "textureMappingPhotoCoordBuffer" }
OwnedObjects == VertexLayouts \cup DataBuffers \cup { "generatedTexture" }
ShaderPrograms == { "program", "textureMappingProgram" }

\* Contents of the generated texture: never allocated, freshly allocated,
\* cleared, or rectified from a vertex set and a photo.
Content(kind, positions, coords, photo) ==
  [kind |-> kind, positions |-> positions, coords |-> coords, photo |-> photo]
NoContent == Content("none", << >>, << >>, NoTexture)

\* ----------------------------------------------------------- WebGL calls
\* Each operator is one call on the context g; Log appends it to the trace.
Log(g, call, args) ==
  [g EXCEPT !.calls = Append(@, [call |-> call, args |-> args])]

createFramebuffer(g) ==
  Log([g EXCEPT !.framebuffers = @ + 1, !.attachment = "none"],
      "createFramebuffer", << >>)

bindFramebuffer(g, fb) ==
  Log([g EXCEPT !.boundFramebuffer = fb], "bindFramebuffer", << fb >>)

deleteFramebuffer(g) ==
  Log([g EXCEPT !.framebuffers = @ - 1, !.attachment = "none"],
      "deleteFramebuffer", << >>)

\* texImage2D(..., width, height, ..., null): new storage, old contents gone.
texImage2D(g, width, height) ==
  Log([g EXCEPT !.texture = [width |-> width, height |-> height,
                             content |-> Content("zero", << >>, << >>, NoTexture)]],
      "texImage2D", << width, height >>)

framebufferTexture2D(g) ==
  Log([g EXCEPT !.attachment = "generatedTexture"], "framebufferTexture2D", << >>)

viewport(g, w, h) ==
  Log([g EXCEPT !.viewport = << 0, 0, w, h >>], "viewport", << 0, 0, w, h >>)

\* clear() writes to the texture attached to the bound temporary target.
clear(g) ==
  Log(IF g.boundFramebuffer = "temp" /\ g.attachment = "generatedTexture"
      THEN [g EXCEPT !.texture.content = Content("black", << >>, << >>, NoTexture)]
      ELSE g,
      "clear", << g.boundFramebuffer >>)

bufferData(g, buffer, data) ==
  Log([g EXCEPT !.buffers[buffer] = data], "bufferData", << buffer >>)

useProgram(g, program) ==
  Log([g EXCEPT !.program = program], "useProgram", << program >>)

uniform(g, name, value) == Log(g, "uniform", << name, value >>)

bindTexture(g, texture) == Log(g, "bindTexture", << texture >>)

bindVertexArray(g, vertexArray) ==
  Log([g EXCEPT !.vertexArray = vertexArray], "bindVertexArray", << vertexArray >>)

\* A blend switch that only ever enables.
setBlend_StaysOn(g, on) ==
  Log([g EXCEPT !.blend = TRUE], "enable", << "BLEND" >>)

\* gl.enable(gl.BLEND) and gl.disable(gl.BLEND)
setBlend(g, on) ==
  Log([g EXCEPT !.blend = on], IF on THEN "enable" ELSE "disable", << "BLEND" >>)

\* drawArrays(TRIANGLE_STRIP, 0, count): a draw into the temporary target
\* replaces the attached texture's contents by the rectified image.
drawArrays(g, count, photo) ==
  Log(IF g.boundFramebuffer = "temp" /\ g.attachment = "generatedTexture"
      THEN [g EXCEPT !.texture.content =
              Content("rectified", g.buffers.textureMappingPositionBuffer,
                      g.buffers.textureMappingPhotoCoordBuffer, photo)]
      ELSE g,
      "drawArrays",
      << g.boundFramebuffer, g.vertexArray, count, g.viewport >>)

\* --------------------------------------------------- the renderer's methods
\* A machine state m holds the renderer's fields (m.t), the context (m.g) and
\* the number of updateGeometry runs of the current operation (m.n).

\* i % 2 === 0: the point at JavaScript index i lies on the even rail
IsEven(i) == i % 2 = 0

\* The loop of calculateDistances over one rail: from JavaScript index i in
\* A loop that stores each segment's own length instead of the running sum.
RECURSIVE Accumulate_SegmentOnly(_, _, _)
Accumulate_SegmentOnly(pixelPositions, table, i) ==
  IF i < Len(pixelPositions) - 2
  THEN Accumulate_SegmentOnly(pixelPositions,
                  [table EXCEPT ![i + 3] =
                     distance(At(pixelPositions, i), At(pixelPositions, i + 2))],
                  i + 2)
  ELSE table

\* steps of 2 while i < pointCount - 2, table[i + 2] = table[i] + distance.
RECURSIVE Accumulate(_, _, _)
Accumulate(pixelPositions, table, i) ==
  IF i < Len(pixelPositions) - 2
  THEN Accumulate(pixelPositions,
                  [table EXCEPT ![i + 3] =
                     Plus(At(table, i),
                          distance(At(pixelPositions, i), At(pixelPositions, i + 2)))],
                  i + 2)
  ELSE table

\* pixelPositions of calculateDistances and of updateTexture
PixelPositions(points, dimensions) ==
  [i \in 1..Len(points) |-> PixelPos(points[i], dimensions)]

\* Both rails normalized by the larger of the two totals.
calculateDistances_SharedMaximum(t, points, dimensions) ==
  LET pointCount == Len(points)
      pixelPositions == PixelPositions(points, dimensions)
      zeros == [i \in 1..pointCount |-> Zero]
      evenDistances == Accumulate(pixelPositions, zeros, 0)
      oddDistances == Accumulate(pixelPositions, zeros, 1)
      lastEvenIndex == IF pointCount % 2 = 0 THEN pointCount - 2 ELSE pointCount - 1
      lastOddIndex == IF pointCount % 2 = 0 THEN pointCount - 1 ELSE pointCount - 2
      maxEvenDistance == At(evenDistances, lastEvenIndex)
      maxOddDistance == At(oddDistances, lastOddIndex)
      maxDistance == Max(maxEvenDistance, maxOddDistance)
      edgeDistance0 == distance(At(pixelPositions, 0), At(pixelPositions, 1))
      edgeDistanceLast == distance(At(pixelPositions, pointCount - 2),
                                   At(pixelPositions, pointCount - 1))
  IN IF pointCount < 2 THEN t
     ELSE [t EXCEPT
             !.evenDistances = evenDistances,
             !.oddDistances = oddDistances,
             !.normalizedEvenUVs =
                [i \in 1..pointCount |-> Divide(evenDistances[i], maxDistance)],
             !.normalizedOddUVs =
                [i \in 1..pointCount |-> Divide(oddDistances[i], maxDistance)],
             !.textureWidth = Ceil(Max(edgeDistance0, edgeDistanceLast)),
             !.textureHeight = Ceil(maxDistance)]

calculateDistances(t, points, dimensions) ==
  LET pointCount == Len(points)
      pixelPositions == PixelPositions(points, dimensions)
      zeros == [i \in 1..pointCount |-> Zero]
      evenDistances == Accumulate(pixelPositions, zeros, 0)
      oddDistances == Accumulate(pixelPositions, zeros, 1)
      lastEvenIndex == IF pointCount % 2 = 0 THEN pointCount - 2 ELSE pointCount - 1
      lastOddIndex == IF pointCount % 2 = 0 THEN pointCount - 1 ELSE pointCount - 2
      maxEvenDistance == At(evenDistances, lastEvenIndex)
      maxOddDistance == At(oddDistances, lastOddIndex)
      maxDistance == Max(maxEvenDistance, maxOddDistance)
      edgeDistance0 == distance(At(pixelPositions, 0), At(pixelPositions, 1))
      edgeDistanceLast == distance(At(pixelPositions, pointCount - 2),
                                   At(pixelPositions, pointCount - 1))
  IN IF pointCount < 2 THEN t
     ELSE [t EXCEPT
             !.evenDistances = evenDistances,
             !.oddDistances = oddDistances,
             !.normalizedEvenUVs =
                [i \in 1..pointCount |-> Divide(evenDistances[i], maxEvenDistance)],
             !.normalizedOddUVs =
                [i \in 1..pointCount |-> Divide(oddDistances[i], maxOddDistance)],
             !.textureWidth = Ceil(Max(edgeDistance0, edgeDistanceLast)),
             !.textureHeight = Ceil(maxDistance)]

\* An exit that unbinds the temporary framebuffer and forgets to delete it.
ReleaseFramebuffer_NoDelete(g) == bindFramebuffer(g, "null")

\* Exit of updateTexture: unbind and delete the temporary framebuffer.
ReleaseFramebuffer(g) == deleteFramebuffer(bindFramebuffer(g, "null"))

\* normalizedY * 2.0 - 1.0, kept as the pair of the fraction and the map
ClipY(normalizedY) == [of |-> normalizedY, times |-> 2, plus |-> -1]

\* positions of the rectification pass: x, y per point
TextureMappingPositions(t, points) ==
  [i \in 1..Len(points) |->
     << IF IsEven(i - 1) THEN 1 ELSE -1,
        ClipY(IF IsEven(i - 1) THEN t.normalizedEvenUVs[i]
              ELSE t.normalizedOddUVs[i]) >>]

\* complete: what checkFramebufferStatus reports for the temporary target
updateTexture(m, points, complete) ==
  LET t == m.t
      pointCount == Len(points)
      g1 == bindFramebuffer(createFramebuffer(m.g), "temp")
      g2 == texImage2D(bindTexture(g1, "generatedTexture"),
                       t.textureWidth, t.textureHeight)
      g3 == framebufferTexture2D(g2)
      g4 == clear(viewport(g3, t.textureWidth, t.textureHeight))
      g5 == bufferData(g4, "textureMappingPositionBuffer",
                       TextureMappingPositions(t, points))
      g6 == bufferData(g5, "textureMappingPhotoCoordBuffer",
                       PixelPositions(points, t.photoDimensions))
      g7 == uniform(useProgram(g6, "textureMappingProgram"),
                    "photoDimensions", t.photoDimensions)
      g8 == uniform(bindTexture(g7, t.photoTexture), "photoTexture", 0)
      g9 == bindVertexArray(
              drawArrays(bindVertexArray(g8, "textureMappingVAO"),
                         pointCount, t.photoTexture),
              "null")
  IN IF t.textureWidth = 0 \/ t.textureHeight = 0 THEN m
     ELSE IF ~complete
       THEN [m EXCEPT !.g = ReleaseFramebuffer(Log(g3, "console.error", << >>))]
     ELSE IF t.photoTexture = NoTexture \/ t.photoDimensions = NoDimensions
       THEN [m EXCEPT !.g = ReleaseFramebuffer(g4)]
     ELSE IF pointCount < 2
       THEN [m EXCEPT !.g = ReleaseFramebuffer(g4)]
     ELSE [m EXCEPT !.g = ReleaseFramebuffer(g9)]

\* positions and uvs of the compositing pass
CompositingPositions(points) ==
  [i \in 1..Len(points) |->
     << points[i].position[1], points[i].position[2], points[i].depth >>]

\* UVs that read the even rail's coordinate for every vertex.
CompositingUVs_EvenRail(t, points) ==
  [i \in 1..Len(points) |->
     << IF IsEven(i - 1) THEN 0 ELSE 1, t.normalizedEvenUVs[i] >>]

CompositingUVs(t, points) ==
  [i \in 1..Len(points) |->
     IF IsEven(i - 1) THEN << 0, t.normalizedEvenUVs[i] >>
     ELSE << 1, t.normalizedOddUVs[i] >>]

\* An upload that records the vertex count before it tests the point count.
updateVertexBuffers_CountFirst(m, points) ==
  LET pointCount == Len(points)
      counted == [m EXCEPT !.t.vertexCount = pointCount]
      g1 == bufferData(m.g, "positionBuffer", CompositingPositions(points))
      g2 == bufferData(g1, "uvBuffer", CompositingUVs(m.t, points))
  IN IF pointCount < 2 THEN counted
     ELSE [counted EXCEPT !.g = g2]

updateVertexBuffers(m, points) ==
  LET pointCount == Len(points)
      g1 == bufferData(m.g, "positionBuffer", CompositingPositions(points))
      g2 == bufferData(g1, "uvBuffer", CompositingUVs(m.t, points))
  IN IF pointCount < 2 THEN m
     ELSE [m EXCEPT !.t.vertexCount = pointCount, !.g = g2]

updateGeometry(m, points, dimensions, complete) ==
  LET m1 == [m EXCEPT !.t = calculateDistances(m.t, points, dimensions),
                       !.n = @ + 1]
      m2 == updateTexture(m1, points, complete)
  IN updateVertexBuffers(m2, points)

\* A regeneration test that forgets the dirty flag.
ShouldRegenerate_IgnoreFlag(t) ==
  t.photoTexture # NoTexture /\ t.photoDimensions # NoDimensions

\* the regeneration test at the head of render()
ShouldRegenerate(t) ==
  t.needsRegeneration /\ t.photoTexture # NoTexture /\ t.photoDimensions # NoDimensions

\* A compositing pass that leaves the viewport as the last pass set it.
Composite_NoViewport(m, time, targetFramebuffer) ==
  LET t == m.t
      g1 == bindFramebuffer(m.g, targetFramebuffer)
      g2 == uniform(uniform(useProgram(g1, "program"),
                            "projectionMatrix", 0), "time", time)
      g3 == uniform(bindTexture(g2, "generatedTexture"), "photoTexture", 0)
      g4 == bindVertexArray(setBlend(g3, TRUE), "vao")
      g5 == bindVertexArray(drawArrays(g4, t.vertexCount, NoTexture), "null")
  IN [m EXCEPT !.g = setBlend(g5, FALSE)]

\* the compositing pass of render()
Composite(m, time, targetFramebuffer) ==
  LET t == m.t
      g1 == viewport(bindFramebuffer(m.g, targetFramebuffer),
                     t.resolution[1], t.resolution[2])
      g2 == uniform(uniform(useProgram(g1, "program"),
                            "projectionMatrix", 0), "time", time)
      g3 == uniform(bindTexture(g2, "generatedTexture"), "photoTexture", 0)
      g4 == bindVertexArray(setBlend(g3, TRUE), "vao")
      g5 == bindVertexArray(drawArrays(g4, t.vertexCount, NoTexture), "null")
  IN [m EXCEPT !.g = setBlend(g5, FALSE)]

\* A render() that keeps the dirty flag until a regeneration has drawn the
\* rectified texture.
render_RetryUntilRectified(m, points, time, targetFramebuffer, complete) ==
  LET m0 == updateGeometry(m, points, m.t.photoDimensions, complete)
      drawn == \E i \in 1..Len(m0.g.calls) : m0.g.calls[i].call = "drawArrays"
      m1 == IF ShouldRegenerate(m.t)
            THEN [m0 EXCEPT !.t.needsRegeneration = ~drawn]
            ELSE m
  IN IF m1.t.vertexCount < 2 \/ m1.t.photoTexture = NoTexture THEN m1
     ELSE Composite(m1, time, targetFramebuffer)

\* A render() that regenerates and leaves the dirty flag set.
render_FlagLeftSet(m, points, time, targetFramebuffer, complete) ==
  LET m1 == IF ShouldRegenerate(m.t)
            THEN updateGeometry(m, points, m.t.photoDimensions, complete)
            ELSE m
  IN IF m1.t.vertexCount < 2 \/ m1.t.photoTexture = NoTexture THEN m1
     ELSE Composite(m1, time, targetFramebuffer)

render(m, points, time, targetFramebuffer, complete) ==
  LET m1 == IF ShouldRegenerate(m.t)
            THEN [updateGeometry(m, points, m.t.photoDimensions, complete)
                    EXCEPT !.t.needsRegeneration = FALSE]
            ELSE m
  IN IF m1.t.vertexCount < 2 \/ m1.t.photoTexture = NoTexture THEN m1
     ELSE Composite(m1, time, targetFramebuffer)

\* The fullscreen quad of debugRenderTexture: clip positions and UVs.
QuadPositions == << <<-1, -1>>, <<1, -1>>, <<-1, 1>>, <<1, 1>> >>
QuadUVs == << <<0, 0>>, <<1, 0>>, <<0, 1>>, <<1, 1>> >>

\* A debug draw that uploads its quad into the compositing buffers.
debugRenderTexture_ThroughCompositingBuffers(m, targetFramebuffer) ==
  LET t == m.t
      g1 == viewport(bindFramebuffer(m.g, targetFramebuffer),
                     t.resolution[1], t.resolution[2])
      g2 == useProgram(g1, "textureMappingProgram")
      g3 == bufferData(g2, "positionBuffer", QuadPositions)
      g4 == bufferData(g3, "uvBuffer", QuadUVs)
      g5 == uniform(g4, "photoDimensions", <<1, 1>>)
      g6 == uniform(bindTexture(g5, "generatedTexture"), "photoTexture", 0)
      g7 == drawArrays(bindVertexArray(g6, "textureMappingVAO"),
                       Len(QuadPositions), NoTexture)
  IN [m EXCEPT !.g = bindVertexArray(g7, "null")]

\* debugRenderTexture(): draws the generated texture over the whole target
\* with the rectification program, through the rectification buffers.
debugRenderTexture(m, targetFramebuffer) ==
  LET t == m.t
      g1 == viewport(bindFramebuffer(m.g, targetFramebuffer),
                     t.resolution[1], t.resolution[2])
      g2 == useProgram(g1, "textureMappingProgram")
      g3 == bufferData(g2, "textureMappingPositionBuffer", QuadPositions)
      g4 == bufferData(g3, "textureMappingPhotoCoordBuffer", QuadUVs)
      g5 == uniform(g4, "photoDimensions", <<1, 1>>)
      g6 == uniform(bindTexture(g5, "generatedTexture"), "photoTexture", 0)
      g7 == drawArrays(bindVertexArray(g6, "textureMappingVAO"),
                       Len(QuadPositions), NoTexture)
  IN [m EXCEPT !.g = bindVertexArray(g7, "null")]

\* The host's frame callback after `seconds` since the start: viewport to
\* the canvas, clear, and unless in photo mode render(seconds * 0.1, null).
renderCallback(m, points, photoMode, seconds, complete) ==
  LET m1 == [m EXCEPT !.g = clear(viewport(m.g, CanvasSize[1], CanvasSize[2]))]
  IN IF photoMode THEN m1
     ELSE render(m1, points, seconds \div 10, "null", complete)

\* A ribbon callback that also throws the uploaded geometry away.
OnAreaChange_Reset(t) == [t EXCEPT !.needsRegeneration = TRUE, !.vertexCount = 0]

\* the ribbon subscription callback
OnAreaChange(t) == [t EXCEPT !.needsRegeneration = TRUE]

\* the photo subscription callback
OnPhotoChange(t, texture, dimensions) ==
  [t EXCEPT !.photoTexture = texture,
            !.photoDimensions = dimensions,
            !.needsRegeneration = TRUE]

\* A destroy() that leaves the photo subscription in place.
destroy_KeepPhotoSubscription(h) ==
  [h EXCEPT !.areaSubscribed = FALSE,
            !.g.live = @ \ { "vao", "positionBuffer", "uvBuffer", "textureMappingVAO",
                              "textureMappingPositionBuffer",
                              "textureMappingPhotoCoordBuffer", "generatedTexture" }]

\* destroy(): h holds the two subscriptions and the context
destroy(h) ==
  [h EXCEPT !.areaSubscribed = FALSE,
            !.photoSubscribed = FALSE,
            !.g.live = @ \ { "vao", "positionBuffer", "uvBuffer", "textureMappingVAO",
                              "textureMappingPositionBuffer",
                              "textureMappingPhotoCoordBuffer", "generatedTexture" }]

\* ------------------------------------------------------------------- Init
InitThis ==
  [ textureWidth |-> 0, textureHeight |-> 0, vertexCount |-> 0,
    photoTexture |-> NoTexture, photoDimensions |-> NoDimensions,
    needsRegeneration |-> FALSE, resolution |-> << 0, 0 >>,
    evenDistances |-> << >>, oddDistances |-> << >>,
    normalizedEvenUVs |-> << >>, normalizedOddUVs |-> << >> ]

\* The viewport of a context nothing has set a viewport on: the size of its
\* canvas, each side at least 1.
ContextViewport(canvas) ==
  << 0, 0, IF canvas[1] < 1 THEN 1 ELSE canvas[1],
           IF canvas[2] < 1 THEN 1 ELSE canvas[2] >>

\* The context the constructor receives, with the objects it creates.
NewContext ==
  [ live |-> OwnedObjects \cup ShaderPrograms,
    framebuffers |-> 0,
    boundFramebuffer |-> "null",
    attachment |-> "none",
    viewport |-> ContextViewport(CanvasSize),
    texture |-> [width |-> 0, height |-> 0, content |-> NoContent],
    buffers |-> [b \in DataBuffers |-> << >>],
    program |-> "none",
    vertexArray |-> "null",
    blend |-> FALSE,
    calls |-> << >> ]

\* The context after the constructor: each vertex layout was bound while its
\* attributes were set up, and unbound again.
InitGL ==
  LET g1 == bindVertexArray(bindVertexArray(NewContext, "vao"), "null")
  IN bindVertexArray(bindVertexArray(g1, "textureMappingVAO"), "null")

Init ==
  /\ area \in Ribbons(MaxPoints)
  /\ areaSubscribed = TRUE
  /\ photoSubscribed = TRUE
  /\ this = InitThis
  /\ gl = InitGL
  /\ op = "constructor"
  /\ regenerations = 0
  /\ destroyed = FALSE
  /\ fragment = NoFragment

\* ---------------------------------------------------------------- actions
\* What checkFramebufferStatus may report to a render() on the fields t: it
\* is asked only by a regeneration.
FramebufferStatuses(t) == IF ShouldRegenerate(t) THEN BOOLEAN ELSE { TRUE }

\* A context at the start of an operation: the trace of the last one dropped.
Fresh(g) == [g EXCEPT !.calls = << >>]

\* The ribbon notifies its observers after a mutation.
Notify ==
  /\ this' = IF areaSubscribed THEN OnAreaChange(this) ELSE this
  /\ gl' = Fresh(gl)
  /\ op' = "areaChange"
  /\ regenerations' = 0
  /\ UNCHANGED << areaSubscribed, photoSubscribed, destroyed, fragment >>

\* The editing collaborator appends a boundary point.
AddPoint ==
  /\ Len(area) < MaxPoints
  /\ \E p \in Candidates(Len(area)) : area' = Append(area, p)
  /\ Notify

\* The editing collaborator removes the last endpoint.
RemovePoint ==
  /\ Len(area) > 0
  /\ area' = SubSeq(area, 1, Len(area) - 1)
  /\ Notify

\* The editing collaborator drags a boundary point.
MovePoint ==
  /\ \E i \in 1..Len(area) : \E p \in Candidates(i - 1) :
       /\ area[i] # p
       /\ area' = [area EXCEPT ![i] = p]
  /\ Notify

\* The host publishes a photo to its observers.
PhotoChange ==
  /\ \E photo \in PhotoSources :
       this' = IF photoSubscribed
               THEN OnPhotoChange(this, photo.texture, photo.dimensions)
               ELSE this
  /\ gl' = Fresh(gl)
  /\ op' = "photoChange"
  /\ regenerations' = 0
  /\ UNCHANGED << area, areaSubscribed, photoSubscribed, destroyed, fragment >>

\* The host calls setResolution, render and destroy only on a renderer it has
\* not destroyed; the ribbon and the photo source outlive the renderer.
SetResolution ==
  /\ ~destroyed
  /\ \E res \in Resolutions : this' = [this EXCEPT !.resolution = res]
  /\ gl' = Fresh(gl)
  /\ op' = "setResolution"
  /\ regenerations' = 0
  /\ UNCHANGED << area, areaSubscribed, photoSubscribed, destroyed, fragment >>

Render ==
  /\ ~destroyed
  /\ \E time \in Times, targetFramebuffer \in Targets,
        complete \in FramebufferStatuses(this) :
       LET m == render([t |-> this, g |-> Fresh(gl), n |-> 0], area, time,
                       targetFramebuffer, complete)
       IN /\ this' = m.t
          /\ gl' = m.g
          /\ regenerations' = m.n
  /\ op' = "render"
  /\ UNCHANGED << area, areaSubscribed, photoSubscribed, destroyed, fragment >>

\* The host's frame callback, registered once the host has set the
\* resolution to the canvas: it sets the viewport to the canvas, clears, and
\* outside photo mode renders into the default framebuffer. A host that has
\* destroyed the renderer no longer renders it.
HostFrame ==
  /\ this.resolution = CanvasSize
  /\ \E photoMode \in BOOLEAN :
     \E seconds \in (IF photoMode THEN {0} ELSE HostSeconds) :
     \E complete \in (IF photoMode THEN {TRUE} ELSE FramebufferStatuses(this)) :
       /\ destroyed => photoMode
       /\ LET m == renderCallback([t |-> this, g |-> Fresh(gl), n |-> 0], area,
                                  photoMode, seconds, complete)
          IN /\ this' = m.t
             /\ gl' = m.g
             /\ regenerations' = m.n
  /\ op' = "hostFrame"
  /\ UNCHANGED << area, areaSubscribed, photoSubscribed, destroyed, fragment >>

DebugRenderTexture ==
  /\ ~destroyed
  /\ \E targetFramebuffer \in Targets :
       LET m == debugRenderTexture([t |-> this, g |-> Fresh(gl), n |-> 0],
                                   targetFramebuffer)
       IN /\ this' = m.t
          /\ gl' = m.g
          /\ regenerations' = m.n
  /\ op' = "debugRenderTexture"
  /\ UNCHANGED << area, areaSubscribed, photoSubscribed, destroyed, fragment >>

Destroy ==
  /\ ~destroyed
  /\ LET h == destroy([areaSubscribed |-> areaSubscribed,
                        photoSubscribed |-> photoSubscribed, g |-> Fresh(gl)])
     IN /\ areaSubscribed' = h.areaSubscribed
        /\ photoSubscribed' = h.photoSubscribed
        /\ gl' = h.g
  /\ destroyed' = TRUE
  /\ op' = "destroy"
  /\ regenerations' = 0
  /\ UNCHANGED << area, this, fragment >>

Next ==
  \/ AddPoint
  \/ RemovePoint
  \/ MovePoint
  \/ PhotoChange
  \/ SetResolution
  \/ HostFrame
  \/ Render
  \/ DebugRenderTexture
  \/ Destroy

Spec == Init /\ [][Next]_vars

\* ------------------------------------------------- the geometry on its own
\* Regeneration as a function of the ribbon and the photo: the renderer is
\* constructed, a photo is published, and the host renders a ribbon it has
\* already built. Boundary points sit on the four corners of the photo.
MaxCalcPoints == 5
PointC == [position |-> <<1, -1>>, depth |-> 0, photoPos |-> <<1, -1>>]
PointD == [position |-> <<-1, 1>>, depth |-> 1, photoPos |-> <<-1, 1>>]
CalcPool == {PointA, PointB, PointC, PointD}

\* All ribbons of at most n points over the four corners.
RECURSIVE CalcRibbons(_)
CalcRibbons(n) ==
  IF n = 0 THEN { << >> }
  ELSE LET shorter == CalcRibbons(n - 1)
       IN shorter \cup { Append(s, p) : s \in { t \in shorter : Len(t) = n - 1 },
                                         p \in CalcPool }

\* The four-corner ribbon over a 400 by 400 photo.
ScenarioRibbon == << PointA, PointC, PointD, PointB >>
ScenarioPhoto == [texture |-> 3, dimensions |-> <<400, 400>>]

\* The ribbons and photos the geometry is computed for. The 400 by 400 photo
\* goes with the four-corner ribbon, whose lengths are single square roots.
CalcInputs ==
  { [points |-> r, photo |-> ph] : r \in CalcRibbons(MaxCalcPoints),
                                   ph \in PhotoSources }
    \cup { [points |-> ScenarioRibbon, photo |-> ScenarioPhoto] }

InitCalc ==
  /\ \E input \in CalcInputs :
       /\ area = input.points
       /\ this = OnPhotoChange(InitThis, input.photo.texture,
                               input.photo.dimensions)
  /\ areaSubscribed = TRUE
  /\ photoSubscribed = TRUE
  /\ gl = InitGL
  /\ op = "photoChange"
  /\ regenerations = 0
  /\ destroyed = FALSE
  /\ fragment = NoFragment

NextCalc == Render

SpecCalc == InitCalc /\ [][NextCalc]_vars

\* ----------------------------------------------- the flow shader on its own
\* The compositing draw call shades fragments: interpolated UVs in 0..1 on
\* both axes, at the time the host passed to render().
ShaderUVs == { << x, y >> : x \in 0..Unit, y \in 0..Unit }
ShaderTimes == 0..MaxShaderTime

InitShader == Init /\ area = << >>

Shade ==
  /\ \E v_uv \in ShaderUVs, time \in ShaderTimes :
       fragment' = [shaded |-> TRUE, v_uv |-> v_uv, time |-> time,
                    scrollUv |-> scrollUv(v_uv, time),
                    fragColor |-> FragmentMain(v_uv, time)]
  /\ UNCHANGED << area, areaSubscribed, photoSubscribed, this, gl, op,
                  regenerations, destroyed >>

NextShader == Shade

SpecShader == InitShader /\ [][NextShader]_vars

\* ------------------------------------------------------------ properties
\* Positions in the trace of the last operation of the calls named `call`.
CallsOf(call) == { i \in 1..Len(gl.calls) : gl.calls[i].call = call }

\* Least element of a non-empty set of positions.
First(positions) == CHOOSE i \in positions : \A j \in positions : i <= j

\* The operations that call render(): the call itself and the host's frame
\* callback.
RenderingOperations == { "render", "hostFrame" }

\* The context apart from the trace is the same before and after the step.
ContextUntouched ==
  /\ gl'.calls = << >>
  /\ [gl' EXCEPT !.calls = gl.calls] = gl

\* A photo source is present in the renderer's fields.
PhotoPresent == this.photoTexture # NoTexture /\ this.photoDimensions # NoDimensions

\* The viewport a render() call owes its compositing draw.
OutputViewport == << 0, 0, this.resolution[1], this.resolution[2] >>

\* The viewport of the rectification pass.
TextureViewport == << 0, 0, this.textureWidth, this.textureHeight >>

\* C1: a render() call regenerates if and only if the flag is dirty and a
\* photo source is present when it starts, at most once per call; the flag is
\* clean when such a call returns; without a photo source the flag stays
\* dirty over render() calls.
C1_InvalidationStateMachine ==
  [][ op' = "render" =>
        /\ (regenerations' >= 1) <=> (this.needsRegeneration /\ PhotoPresent)
        /\ regenerations' <= 1
        /\ (regenerations' >= 1) => ~this'.needsRegeneration
        /\ (this.needsRegeneration /\ ~PhotoPresent) =>
             (this'.needsRegeneration /\ regenerations' = 0)
        /\ this'.needsRegeneration => this.needsRegeneration ]_vars

\* C1 witness: a render() call has serviced the dirty flag, rectified the
\* photo and drawn, and left the flag clean.
C1_Serviced ==
  /\ op = "render"
  /\ regenerations = 1
  /\ ~this.needsRegeneration
  /\ gl.texture.content.kind = "rectified"
  /\ Cardinality(CallsOf("drawArrays")) = 2

\* C2: a ribbon notification changes only the dirty flag, a photo
\* notification only the flag and the photo handle and dimensions; neither
\* issues a GL call or recomputes; the flag is set by notifications only and
\* cleared by render() only.
C2_NotificationsOnlyMark ==
  [][ /\ op' = "areaChange" =>
           /\ [this' EXCEPT !.needsRegeneration = this.needsRegeneration] = this
           /\ areaSubscribed => this'.needsRegeneration
           /\ ContextUntouched
           /\ regenerations' = 0
      /\ op' = "photoChange" =>
           /\ [this' EXCEPT !.needsRegeneration = this.needsRegeneration,
                            !.photoTexture = this.photoTexture,
                            !.photoDimensions = this.photoDimensions] = this
           /\ photoSubscribed => this'.needsRegeneration
           /\ ContextUntouched
           /\ regenerations' = 0
      /\ (~this.needsRegeneration /\ this'.needsRegeneration) =>
           op' \in { "areaChange", "photoChange" }
      /\ (this.needsRegeneration /\ ~this'.needsRegeneration) =>
           op' \in RenderingOperations ]_vars

\* C2 witness: a ribbon notification has arrived after a full regeneration
\* and left the derived state and the texture in place.
C2_NotifiedAfterRegeneration ==
  /\ op = "areaChange"
  /\ ~destroyed
  /\ this.needsRegeneration
  /\ this.vertexCount >= 2
  /\ gl.texture.content.kind = "rectified"
  /\ gl.calls = << >>

\* C3: a render() call made while the ribbon has fewer than 2 points, or
\* while no photo source is bound, binds no framebuffer, sets no viewport and
\* draws nothing.
C3_SkippedFrameIsNoOp ==
  (op = "render" /\ (Len(area) < 2 \/ this.photoTexture = NoTexture)) =>
    /\ CallsOf("bindFramebuffer") = {}
    /\ CallsOf("viewport") = {}
    /\ CallsOf("drawArrays") = {}

\* C4: after destroy() a ribbon mutation or a photo change reaches no
\* callback: the renderer's fields stay as they are, no GL call is made and
\* nothing is recomputed or drawn.
C4_NoCallbackAfterDestroy ==
  [][ (destroyed /\ op' \in {"areaChange", "photoChange"}) =>
        /\ this' = this
        /\ ContextUntouched
        /\ regenerations' = 0 ]_vars

\* C4 witness: the host has published a photo after destroy() and the
\* renderer still holds no photo and a clean flag.
C4_PhotoPublishedAfterDestroy ==
  /\ destroyed
  /\ op = "photoChange"
  /\ this.photoTexture = NoTexture
  /\ ~this.needsRegeneration

\* C5: after destroy() none of the seven objects of the constructor is live
\* and no object the renderer created is left unreleased.
C5_EverythingReleased ==
  destroyed =>
    /\ gl.live \cap OwnedObjects = {}
    /\ gl.live = {}
    /\ gl.framebuffers = 0

\* C6, as stated: a render() call that draws has set the viewport to the
\* output resolution before its first draw call.
C6_ViewportBeforeFirstDraw ==
  (op = "render" /\ CallsOf("drawArrays") # {}) =>
    LET first == First(CallsOf("drawArrays"))
    IN /\ \E j \in CallsOf("viewport") : j < first /\ gl.calls[j].args = OutputViewport
       /\ gl.calls[first].args[4] = OutputViewport

\* C6, amended: the compositing draw of a render() call runs under the
\* output resolution, set during that call after any rectification draw; the
\* rectification draw runs under the texture's dimensions.
C6_ViewportBeforeCompositingDraw ==
  op = "render" =>
    \A i \in CallsOf("drawArrays") :
      IF gl.calls[i].args[2] = "vao"
      THEN /\ gl.calls[i].args[4] = OutputViewport
           /\ \E j \in CallsOf("viewport") :
                /\ j < i
                /\ gl.calls[j].args = OutputViewport
                /\ \A k \in CallsOf("drawArrays") : ~(j < k /\ k < i)
      ELSE /\ gl.calls[i].args[4] = TextureViewport
           /\ \A k \in CallsOf("drawArrays") : i <= k

\* C6 witness: a render() call has serviced the dirty flag with a
\* rectification draw and a compositing draw, the texture's dimensions
\* differing from the resolution set by setResolution.
C6_RectifiedThenComposited ==
  /\ op = "render"
  /\ regenerations = 1
  /\ Cardinality(CallsOf("drawArrays")) = 2
  /\ this.resolution \in Resolutions
  /\ TextureViewport # OutputViewport

\* C7: when a serviced regeneration finds a rectification precondition
\* failing (fewer than 2 points, a texture dimension of 0, no photo source),
\* the generated texture is after the call what it was before.
C7_FailedPreconditionKeepsTexture ==
  [][ ( /\ op' = "render"
        /\ regenerations' = 1
        /\ \/ Len(area) < 2
           \/ this'.textureWidth = 0
           \/ this'.textureHeight = 0
           \/ this.photoTexture = NoTexture ) =>
        gl'.texture = gl.texture ]_vars

\* C8: when the temporary render target is reported incomplete while a
\* previously generated texture exists, that texture (allocation and
\* contents) stays in place.
C8_IncompleteKeepsTexture ==
  [][ ( /\ op' = "render"
        /\ \E i \in 1..Len(gl'.calls) : gl'.calls[i].call = "console.error"
        /\ gl.texture.content.kind = "rectified" ) =>
        gl'.texture = gl.texture ]_vars

\* C9: after a render() call no framebuffer of the renderer is live, every
\* framebuffer created during the call was deleted, and each was unbound in
\* favour of the default framebuffer right before it was deleted.
C9_FramebufferReleased ==
  op = "render" =>
    /\ gl.framebuffers = 0
    /\ Cardinality(CallsOf("createFramebuffer")) = Cardinality(CallsOf("deleteFramebuffer"))
    /\ \A i \in CallsOf("deleteFramebuffer") :
         /\ i > 1
         /\ gl.calls[i - 1].call = "bindFramebuffer"
         /\ gl.calls[i - 1].args[1] = "null"
    /\ \A i \in CallsOf("drawArrays") :
         gl.calls[i].args[1] = "temp" => \E j \in CallsOf("deleteFramebuffer") : i < j
    /\ ( /\ CallsOf("createFramebuffer") # {}
         /\ \A i \in CallsOf("drawArrays") : gl.calls[i].args[1] = "temp" )
         => gl.boundFramebuffer = "null"

\* C9 witness: a render() call has abandoned a rectification on an
\* incomplete render target.
C9_IncompleteTargetReleased ==
  /\ op = "render"
  /\ CallsOf("console.error") # {}
  /\ CallsOf("createFramebuffer") # {}

\* C10: a regeneration that reaches the rectification pass (both computed
\* dimensions positive) reallocates the generated texture's storage if and
\* only if the dimensions it computed differ from those of the allocation.
C10_ReallocateIffDimensionsDiffer ==
  [][ ( /\ op' = "render"
        /\ regenerations' = 1
        /\ this'.textureWidth > 0
        /\ this'.textureHeight > 0 ) =>
        ( (\E i \in 1..Len(gl'.calls) : gl'.calls[i].call = "texImage2D")
          <=> << this'.textureWidth, this'.textureHeight >>
                # << gl.texture.width, gl.texture.height >> ) ]_vars

\* The last operation was a render that ran a regeneration.
Regenerated == op = "render" /\ regenerations = 1

\* Two boundary points that land on different photo pixels.
Apart(p, q) == p.photoPos # q.photoPos

\* A rail (0 the even one, 1 the odd one) has a segment of non-zero length.
RailHasLength(points, rail) ==
  \E i \in 1..(Len(points) - 2) : i % 2 = (rail + 1) % 2 /\ Apart(points[i], points[i + 2])

\* C11 as stated: with at least two points and positive photo dimensions a
\* regeneration computes a positive texture width and a positive height.
C11_DimensionsPositive ==
  (Regenerated /\ Len(area) >= 2)
    => (this.textureWidth > 0 /\ this.textureHeight > 0)

\* C11 amended: the computed width and height are non-negative integers; the
\* width is positive exactly when the first or the last cross-rail edge has
\* non-zero length, the height exactly when some rail has non-zero length,
\* so that two points alone always give height 0.
C11_DimensionsNonNegative ==
  (Regenerated /\ Len(area) >= 2)
    => /\ this.textureWidth \in Nat
       /\ this.textureHeight \in Nat
       /\ (this.textureWidth > 0)
            <=> (Apart(area[1], area[2])
                 \/ Apart(area[Len(area) - 1], area[Len(area)]))
       /\ (this.textureHeight > 0)
            <=> (RailHasLength(area, 0) \/ RailHasLength(area, 1))
       /\ (Len(area) = 2 => this.textureHeight = 0)

\* A two-point ribbon with a cross-rail edge was regenerated: width without
\* height.
C11_TwoPointsNoHeight ==
  /\ Regenerated
  /\ Len(area) = 2
  /\ this.textureWidth > 0
  /\ this.textureHeight = 0

\* Two lengths of the same value.
Same(a, b) == ~Less(a, b) /\ ~Less(b, a)

\* The length of a rail, summed segment by segment from 0-based index i.
RECURSIVE RailTotal(_, _)
RailTotal(pixelPositions, i) ==
  IF i + 2 >= Len(pixelPositions) THEN Zero
  ELSE Plus(distance(At(pixelPositions, i), At(pixelPositions, i + 2)),
            RailTotal(pixelPositions, i + 2))

\* A normalized coordinate of value 0, and one of value 1.
IsZeroCoordinate(q) == q.den # Zero /\ q.num = Zero
IsOneCoordinate(q) == q.den # Zero /\ Same(q.num, q.den)

\* 0-based index of the last point of a rail in a ribbon of n points.
LastOfRail(n, rail) == IF n % 2 = rail THEN n - 2 ELSE n - 1

\* C12: when both rails have non-zero length, a regeneration leaves each
\* rail's normalized coordinate at 0 on the rail's first point and at 1 on
\* its last, each rail divided by its own total length.
C12_RailsNormalizedToOwnLength ==
  (Regenerated /\ Len(area) >= 2
     /\ RailHasLength(area, 0) /\ RailHasLength(area, 1))
    => LET n == Len(area)
           pixelPositions == PixelPositions(area, this.photoDimensions)
           even == this.normalizedEvenUVs
           odd == this.normalizedOddUVs
       IN /\ IsZeroCoordinate(At(even, 0))
          /\ IsZeroCoordinate(At(odd, 1))
          /\ IsOneCoordinate(At(even, LastOfRail(n, 0)))
          /\ IsOneCoordinate(At(odd, LastOfRail(n, 1)))
          /\ \A i \in 1..n :
               /\ Same(even[i].den, RailTotal(pixelPositions, 0))
               /\ Same(odd[i].den, RailTotal(pixelPositions, 1))

\* Two rails of different non-zero lengths were normalized.
C12_UnequalRailsNormalized ==
  /\ Regenerated
  /\ RailHasLength(area, 0)
  /\ RailHasLength(area, 1)
  /\ Less(RailTotal(PixelPositions(area, this.photoDimensions), 0),
          RailTotal(PixelPositions(area, this.photoDimensions), 1))
  /\ IsOneCoordinate(At(this.normalizedEvenUVs, LastOfRail(Len(area), 0)))

\* The distance table of the rail that 0-based index i lies on.
RailTable(i) == IF IsEven(i) THEN this.evenDistances ELSE this.oddDistances

\* C13: after a regeneration the cumulative distance of each rail is 0 at the
\* rail's first point and never decreases from one rail point to the next.
C13_RailDistancesNonDecreasing ==
  (Regenerated /\ Len(area) >= 2)
    => /\ At(this.evenDistances, 0) = Zero
       /\ At(this.oddDistances, 1) = Zero
       /\ \A i \in 0..(Len(area) - 3) :
            ~Less(At(RailTable(i), i + 2), At(RailTable(i), i))

\* A rail whose second segment is shorter than its first was accumulated.
C13_LongSegmentThenShort ==
  /\ Regenerated
  /\ Len(area) >= 5
  /\ LET pixelPositions == PixelPositions(area, this.photoDimensions)
     IN /\ Less(distance(pixelPositions[3], pixelPositions[5]),
                distance(pixelPositions[1], pixelPositions[3]))
        /\ Less(Zero, distance(pixelPositions[3], pixelPositions[5]))
  /\ Less(this.evenDistances[3], this.evenDistances[5])

\* The compositing pass in a trace: from the bind of the render target on.
CompositingPass(calls) ==
  LET starts == { i \in 1..Len(calls) :
                    /\ calls[i].call = "bindFramebuffer"
                    /\ calls[i].args[1] \in Targets }
  IN IF starts = {} THEN << >>
     ELSE SubSeq(calls, CHOOSE i \in starts : \A j \in starts : i <= j, Len(calls))

\* The times passed to the shader in a trace.
FrameTime(calls) ==
  { calls[i].args[2] : i \in { j \in 1..Len(calls) :
                                 /\ calls[j].call = "uniform"
                                 /\ calls[j].args[1] = "time" } }

\* C14: a render() that directly follows a render() with the same time and
\* target, nothing notified or resized in between, regenerates nothing,
\* changes no field and no GL object, and issues the same compositing calls.
C14_RenderIdempotent ==
  [][(op = "render" /\ op' = "render"
        /\ FrameTime(gl.calls) = FrameTime(gl'.calls))
       => /\ regenerations' = 0
          /\ this' = this
          /\ Fresh(gl') = Fresh(gl)
          /\ CompositingPass(gl'.calls) = CompositingPass(gl.calls)]_vars

\* A render() drew the ribbon from clean state: no regeneration, one draw
\* call, the texture an earlier render() rectified still in place.
C14_CleanFrameDrawn ==
  /\ op = "render"
  /\ regenerations = 0
  /\ ~this.needsRegeneration
  /\ Cardinality(CallsOf("drawArrays")) = 1
  /\ FrameTime(gl.calls) # {}
  /\ gl.texture.content.kind = "rectified"

\* C15: the shaded fragment samples the same place at time + 2k for every
\* integer k, and the wrapped coordinate mod(v_uv.y + time, 2) samples the
\* place that the unwrapped v_uv.y + time samples under mirrored repeat.
C15_ScrollPeriodTwo ==
  fragment.shaded
    => /\ \A k \in (-MaxPeriods)..MaxPeriods :
            FragmentMain(fragment.v_uv, fragment.time + 2 * k * Unit)
              = fragment.fragColor
       /\ fragment.fragColor[2]
            = MirroredRepeat(fragment.v_uv[2] + fragment.time)
       /\ fragment.fragColor[1] = fragment.v_uv[1]

\* A fragment whose scrolled coordinate was wrapped by mod and then mirrored
\* by the sampler.
C15_WrappedAndMirrored ==
  /\ fragment.shaded
  /\ fragment.v_uv[2] + fragment.time > 2 * Unit
  /\ fragment.scrollUv[2] > Unit
  /\ fragment.fragColor[2] # fragment.scrollUv[2]

\* The length n, for a natural n.
Length(n) == AddRoot(Zero, n * n)

\* C16: the four-corner ribbon over a 400 by 400 photo has pixel positions
\* (0,0), (400,0), (0,400), (400,400), both rail tables 0 then 400, both
\* normalized sequences 0 then 1, and a 400 by 400 texture.
C16_FourCornerScenario ==
  (Regenerated /\ area = ScenarioRibbon /\ this.photoDimensions = <<400, 400>>)
    => /\ PixelPositions(area, this.photoDimensions)
            = << <<0, 0>>, <<400, 0>>, <<0, 400>>, <<400, 400>> >>
       /\ At(this.evenDistances, 0) = Zero
       /\ Same(At(this.evenDistances, 2), Length(400))
       /\ At(this.oddDistances, 1) = Zero
       /\ Same(At(this.oddDistances, 3), Length(400))
       /\ IsZeroCoordinate(At(this.normalizedEvenUVs, 0))
       /\ IsOneCoordinate(At(this.normalizedEvenUVs, 2))
       /\ IsZeroCoordinate(At(this.normalizedOddUVs, 1))
       /\ IsOneCoordinate(At(this.normalizedOddUVs, 3))
       /\ this.textureWidth = 400
       /\ this.textureHeight = 400

\* The four-corner ribbon was regenerated over the 400 by 400 photo and its
\* rectified texture allocated.
C16_ScenarioRegenerated ==
  /\ Regenerated
  /\ area = ScenarioRibbon
  /\ this.photoDimensions = <<400, 400>>
  /\ gl.texture.width = 400
  /\ gl.texture.height = 400

\* The fields a regeneration derives from the ribbon.
Geometry(t) ==
  << t.evenDistances, t.oddDistances, t.normalizedEvenUVs, t.normalizedOddUVs,
     t.textureWidth, t.textureHeight, t.vertexCount >>

\* C17: a regeneration of a ribbon of fewer than two points leaves both
\* distance tables, both normalized sequences, the texture width and height
\* and the vertex count as they were.
C17_TooFewPointsKeepsGeometry ==
  [][(op' = "render" /\ regenerations' = 1 /\ Len(area') < 2)
       => Geometry(this') = Geometry(this)]_vars

\* A ribbon cut down to fewer than two points was regenerated over the
\* geometry of a longer one.
C17_ShortRibbonRegenerated ==
  /\ Regenerated
  /\ Len(area) < 2
  /\ this.vertexCount >= 2
  /\ Len(this.evenDistances) >= 2
  /\ this.textureWidth > 0

\* The length d is at most the natural k: exact by squaring for one and for
\* two square roots, by the decimal bracket beyond.
AtMost(d, k) ==
  IF Len(d) = 0 THEN TRUE
  ELSE IF Len(d) = 1 THEN d[1] <= k * k
  ELSE IF Len(d) = 2
       THEN LET rest == k * k - d[1] - d[2]
            IN rest >= 0 /\ 4 * d[1] * d[2] <= rest * rest
  ELSE SumHi(d) <= k * Scale

\* k is the ceiling of the largest of the lengths.
IsCeilOfLargest(k, lengths) ==
  /\ k \in Nat
  /\ \A d \in lengths : AtMost(d, k)
  /\ k > 0 => \E d \in lengths : ~AtMost(d, k - 1)

\* C18: a regeneration sets the texture width to the ceiling of the longer of
\* the first and the last cross-rail edge, and the height to the ceiling of
\* the longer rail, all measured in photo pixels.
C18_TextureDimensions ==
  (Regenerated /\ Len(area) >= 2)
    => LET n == Len(area)
           pixelPositions == PixelPositions(area, this.photoDimensions)
       IN /\ IsCeilOfLargest(this.textureWidth,
                 { distance(pixelPositions[1], pixelPositions[2]),
                   distance(pixelPositions[n - 1], pixelPositions[n]) })
          /\ IsCeilOfLargest(this.textureHeight,
                 { RailTotal(pixelPositions, 0), RailTotal(pixelPositions, 1) })

\* Dimensions that were rounded up: the last edge longer than the first and
\* not a whole number of pixels, the even rail longer than the odd one and
\* made of two segments.
C18_RoundedUpDimensions ==
  /\ Regenerated
  /\ Len(area) >= 5
  /\ LET n == Len(area)
         pixelPositions == PixelPositions(area, this.photoDimensions)
         edgeLast == distance(pixelPositions[n - 1], pixelPositions[n])
     IN /\ Less(distance(pixelPositions[1], pixelPositions[2]), edgeLast)
        /\ ~IsSquare(edgeLast[1])
        /\ this.textureWidth * this.textureWidth > edgeLast[1]
        /\ Less(RailTotal(pixelPositions, 1), RailTotal(pixelPositions, 0))
        /\ Len(RailTotal(pixelPositions, 0)) = 2

\* The normalized coordinate of boundary point i (from 1) on its own rail.
RailCoordinate(i) ==
  IF IsEven(i - 1) THEN this.normalizedEvenUVs[i] ELSE this.normalizedOddUVs[i]

\* The photo pixel a photo coordinate of -1 or 1 falls on.
PhotoPixel(p, dim) == IF p = 1 THEN dim ELSE 0

\* The last render() regenerated, rectified and composited.
RectifiedAndComposited ==
  Regenerated /\ Cardinality(CallsOf("drawArrays")) = 2

\* C19: after a regeneration that rectified, each vertex set holds one vertex
\* per boundary point in order. Rectification: clip x +1 on even and -1 on
\* odd points, clip y the rail coordinate * 2 - 1, with the photo pixel.
\* Compositing: projector position and depth, UV x 0 on even and 1 on odd
\* points, UV y the same rail coordinate. Both passes draw all N vertices.
C19_VertexSetsFollowRibbon ==
  (RectifiedAndComposited /\ Len(area) >= 2)
    => LET n == Len(area) IN
       /\ Len(gl.buffers.textureMappingPositionBuffer) = n
       /\ Len(gl.buffers.textureMappingPhotoCoordBuffer) = n
       /\ Len(gl.buffers.positionBuffer) = n
       /\ Len(gl.buffers.uvBuffer) = n
       /\ \A i \in 1..n :
            /\ gl.buffers.textureMappingPositionBuffer[i]
                 = << IF IsEven(i - 1) THEN 1 ELSE -1,
                      [of |-> RailCoordinate(i), times |-> 2, plus |-> -1] >>
            /\ gl.buffers.textureMappingPhotoCoordBuffer[i]
                 = << PhotoPixel(area[i].photoPos[1], this.photoDimensions[1]),
                      PhotoPixel(area[i].photoPos[2], this.photoDimensions[2]) >>
            /\ gl.buffers.positionBuffer[i]
                 = << area[i].position[1], area[i].position[2], area[i].depth >>
            /\ gl.buffers.uvBuffer[i]
                 = << IF IsEven(i - 1) THEN 0 ELSE 1, RailCoordinate(i) >>
       /\ \A c \in CallsOf("drawArrays") : gl.calls[c].args[3] = n
       /\ this.vertexCount = n

\* A ribbon with two rails of different lengths was rectified and drawn.
C19_TwoRailsUploaded ==
  /\ RectifiedAndComposited
  /\ Len(area) >= 4
  /\ RailHasLength(area, 0)
  /\ RailHasLength(area, 1)
  /\ this.normalizedEvenUVs # this.normalizedOddUVs
  /\ Len(gl.buffers.uvBuffer) = Len(area)

\* The last operation drew into the temporary framebuffer.
RectificationDrawn ==
  \E c \in CallsOf("drawArrays") : gl.calls[c].args[1] = "temp"

\* C20: the render() that runs a regeneration leaves the dirty flag clear
\* whatever the regeneration did, and a render() that starts with the flag
\* clear never regenerates: an abandoned regeneration is not retried until
\* a notification sets the flag again.
C20_FlagClearedWhateverHappened ==
  [][/\ (op' = "render" /\ regenerations' = 1) => ~this'.needsRegeneration
     /\ (op' = "render" /\ ~this.needsRegeneration) => regenerations' = 0]_vars

\* A regeneration that was abandoned before it drew the rectified texture
\* left the flag clear.
C20_AbandonedAndCleared ==
  /\ Regenerated
  /\ ~RectificationDrawn
  /\ ~this.needsRegeneration
  /\ this.textureWidth > 0
  /\ this.textureHeight > 0
  /\ CallsOf("console.error") # {}

\* The vertex count agrees with both compositing buffers of the context g.
CountMatchesUploads(t, g) ==
  /\ t.vertexCount = Len(g.buffers.positionBuffer)
  /\ t.vertexCount = Len(g.buffers.uvBuffer)

\* The vertex counts of the draw calls of a trace through the compositing
\* layout.
CompositingDrawCounts(calls) ==
  { calls[c].args[3] : c \in { i \in 1..Len(calls) :
                                 /\ calls[i].call = "drawArrays"
                                 /\ calls[i].args[2] = "vao" } }

\* C21: vertexCount is always the number of vertices last uploaded to the
\* compositing position buffer and to the compositing UV buffer, 0 before
\* the first upload. It and the two buffers change only in a render() that
\* regenerates a ribbon of two or more points, together and to that many
\* vertices; a compositing draw call draws that many vertices; and
\* debugRenderTexture changes none of the three.
C21_VertexCountMatchesUploads ==
  [][/\ CountMatchesUploads(this, gl)
     /\ CountMatchesUploads(this', gl')
     /\ ( \/ this'.vertexCount # this.vertexCount
          \/ gl'.buffers.positionBuffer # gl.buffers.positionBuffer
          \/ gl'.buffers.uvBuffer # gl.buffers.uvBuffer )
          => /\ op' \in RenderingOperations
             /\ regenerations' = 1
             /\ Len(area') >= 2
             /\ this'.vertexCount = Len(area')
     /\ op' \in RenderingOperations
          => CompositingDrawCounts(gl'.calls) \subseteq { this'.vertexCount }
     /\ op' = "debugRenderTexture"
          => /\ this'.vertexCount = this.vertexCount
             /\ gl'.buffers.positionBuffer = gl.buffers.positionBuffer
             /\ gl'.buffers.uvBuffer = gl.buffers.uvBuffer]_vars

\* debugRenderTexture drew its four-vertex quad over the uploaded geometry of
\* a three-point ribbon.
C21_DebugDrawOverGeometry ==
  /\ op = "debugRenderTexture"
  /\ this.vertexCount = 3
  /\ Len(gl.buffers.positionBuffer) = 3
  /\ gl.buffers.textureMappingPositionBuffer = QuadPositions
  /\ \E c \in CallsOf("drawArrays") : gl.calls[c].args[3] = 4

\* The draw calls of the last operation through the rectification layout
\* and through the compositing layout.
RectificationDraws ==
  { c \in CallsOf("drawArrays") : gl.calls[c].args[2] = "textureMappingVAO" }
CompositingDraws ==
  { c \in CallsOf("drawArrays") : gl.calls[c].args[2] = "vao" }

\* At call c the temporary framebuffer is bound with the generated texture
\* attached: it was bound, the texture attached, and nothing bound since.
TemporaryTargetReady(c) ==
  \E b \in CallsOf("bindFramebuffer"), a \in CallsOf("framebufferTexture2D") :
    /\ gl.calls[b].args[1] = "temp"
    /\ b < a
    /\ a < c
    /\ \A k \in CallsOf("bindFramebuffer") : ~(b < k /\ k < c)

\* C22: in a render() call the rectification draw is issued into the bound
\* temporary framebuffer with the generated texture attached and never into
\* the caller's target; the compositing draw is issued into the caller's
\* target, never into the temporary framebuffer, after the rectification
\* draw and the release of its framebuffer; blending is enabled after the
\* rectification, before the compositing draw, and is off when render()
\* returns.
C22_PassesKeepToTheirTargets ==
  op = "render"
    => /\ CallsOf("drawArrays") = RectificationDraws \cup CompositingDraws
       /\ \A r \in RectificationDraws :
            /\ gl.calls[r].args[1] = "temp"
            /\ gl.calls[r].args[1] \notin Targets
            /\ TemporaryTargetReady(r)
            /\ \A e \in CallsOf("enable") : r < e
       /\ \A c \in CompositingDraws :
            /\ gl.calls[c].args[1] \in Targets
            /\ gl.calls[c].args[1] # "temp"
            /\ \A r \in RectificationDraws : r < c
            /\ \A d \in CallsOf("createFramebuffer") \cup CallsOf("deleteFramebuffer") :
                 d < c
            /\ \E e \in CallsOf("enable") : e < c
            /\ \E d \in CallsOf("disable") : c < d
       /\ \A e \in CallsOf("enable") : \E c \in CompositingDraws : e < c
       /\ gl.blend = FALSE

\* A render() call rectified into the temporary framebuffer and then
\* composited into the caller's target with blending switched on and off.
C22_BothPassesRan ==
  /\ op = "render"
  /\ RectificationDraws # {}
  /\ CompositingDraws # {}
  /\ CallsOf("enable") # {}
  /\ gl.boundFramebuffer \in Targets
  /\ gl.framebuffers = 0

=============================================================================
